---- MODULE Spec2Model ----
(***************************************************************************)
(* Register testbench of openformatproj/me: a Clock fed by a Timer through *)
(* a bounded event queue, a Source and a Register gated on the rising edge *)
(* of clk, a Sink and a VCD monitor, run by the Sequential strategy.       *)
(*                                                                         *)
(* The parts, their wiring, the rising-edge gate, the VCD monitor and      *)
(* simulate() are translated from src/.  The engine underneath (ports,     *)
(* event queues, wiring, the Sequential strategy: package ml) is not part  *)
(* of src/; it is modelled from spec.md sections 3 to 5.                   *)
(***************************************************************************)
EXTENDS Integers, Sequences, FiniteSets, TLC

VARIABLES tb, loop, timer, mainpc, termed, gate, eng, evq, det,
          lg, mon, llm, ser, ck, imp

vars == <<tb, loop, timer, mainpc, termed, gate, eng, evq, det,
          lg, mon, llm, ser, ck, imp>>

----------------------------------------------------------------------------
(* Bounds of the model.                                                    *)

\* Timer events pushed before the timer sets its stop event.
MaxTimerEvents == 18
\* Invocations of a rising_edge-wrapped behavior followed in SpecGate.
MaxGateLen == 6
\* Tick boundaries and port writes followed in SpecEngine.
MaxEngTicks == 1
MaxEngWrites == 3
\* Values pushed in SpecQueue, and the largest queue capacity tried there.
MaxPush == 6
MaxCap == 3
\* Ticks each of the two runs of SpecDet takes.
MaxDetTicks == 4
\* Logic values put through an operator in SpecLogic.
MaxLogicLen == 3
\* Invocations of the monitor followed in SpecVcd.
MaxMonCalls == 2
\* Calls of generate_vhdl_code followed in SpecLlm.
MaxOps == 2
\* Own ports, children and wirings of the Part built in SpecSer.
MaxSerPorts == 2
MaxSerParts == 2
MaxSerWires == 2

----------------------------------------------------------------------------
(* Logic: src/domains/hardware/digital.py                                  *)

U == "U"
X == "X"
ZERO == "0"
ONE == "1"
Z == "Z"
W == "W"
L == "L"
H == "H"
DONT_CARE == "-"

Logic == {U, X, ZERO, ONE, Z, W, L, H, DONT_CARE}

\* An inversion that resolves the weak values to the forcing ones.
Invert_strong(v) ==
    IF v \in {ZERO, L} THEN ONE
    ELSE IF v \in {ONE, H} THEN ZERO
    ELSE X

\* Logic.__invert__
Invert(v) ==
    IF v = ZERO THEN ONE
    ELSE IF v = ONE THEN ZERO
    ELSE IF v = L THEN H
    ELSE IF v = H THEN L
    ELSE X

\* Python's None as the value of a port that was given no init_value.
None == "None"
\* None on a float port (the time ports), which otherwise hold times >= 0.
NoTime == -1

----------------------------------------------------------------------------
(* The Testbench: its children, ports and wiring.                          *)

\* The children in the opposite order.
Children_reversed == <<"vcd", "sink", "dut", "source", "clock">>

\* Children in the order the Sequential strategy visits them: the parts
\* dictionary of Testbench.__init__, then the monitor added by vcd_monitor.
Children == <<"clock", "source", "dut", "sink", "vcd">>

ChildSet == {Children[i] : i \in 1..Len(Children)}

\* The signals dictionary given to vcd_monitor, in its order: the monitor's
\* port name is the key, the monitored path is the value.
Signals ==
    << <<"clock.clk", "clock.clk">>,
       <<"source.rst", "source.rst">>,
       <<"dut.in_0", "source.out_0">>,
       <<"dut.out_0", "dut.out_0">> >>

\* A monitor port is named as the part's port <key> of part vcd.
MonPort(i) == "vcd." \o Signals[i][1]

OutPorts ==
    [clock  |-> {"clock.clk", "clock.time_port"},
     source |-> {"source.rst", "source.out_0"},
     dut    |-> {"dut.out_0"},
     sink   |-> {},
     vcd    |-> {}]

InPorts ==
    [clock  |-> {},
     source |-> {"source.clk"},
     dut    |-> {"dut.clk", "dut.rst", "dut.in_0"},
     sink   |-> {"sink.in_0"},
     vcd    |-> {"vcd.time"} \cup {MonPort(i) : i \in 1..Len(Signals)}]

TimePorts == {"clock.time_port", "vcd.time"}

Ports == UNION {OutPorts[c] \cup InPorts[c] : c \in ChildSet}

LogicPorts == Ports \ TimePorts

\* init_value of each port: Logic.U where the part declares it, None for the
\* ports of the monitor and for time_port.
InitValue(p) == IF p \in InPorts["vcd"] THEN None ELSE U

\* Testbench.__init__'s wire calls and vcd_monitor's connect calls, as
\* <<master, slave>>.
Wiring ==
    { <<"clock.clk", "source.clk">>,
      <<"clock.clk", "dut.clk">>,
      <<"source.rst", "dut.rst">>,
      <<"source.out_0", "dut.in_0">>,
      <<"dut.out_0", "sink.in_0">>,
      <<"clock.time_port", "vcd.time">> }
    \cup {<<Signals[i][2], MonPort(i)>> : i \in 1..Len(Signals)}

\* EventQueue('time', EventQueue.IN, size=1) of Clock, fed through the
\* Testbench's timer_q of the same size.
QueueSize == 1

\* Timer(interval_seconds=0.1): the interval in time units of half a
\* millisecond (the resolution at which time values are modelled).
Interval == 200
UnitsPerMs == 2

----------------------------------------------------------------------------
(* The engine's ports and wiring (package ml, modelled from spec.md 3, 4.1) *)
(* An engine state s is a record with at least the fields                   *)
(*   val   : logic port -> value        upd : port -> updated this tick     *)
(*   tval  : time port -> time          wires : set of <<master, slave>>    *)
(*   err   : "none" or the name of the error raised                         *)

SlavesOf(wires, m) == {w[2] : w \in {x \in wires : x[1] = m}}

MastersOf(wires, p) == {w[1] : w \in {x \in wires : x[2] = p}}

IsSlave(wires, p) == MastersOf(wires, p) # {}

\* read / peek / get: the current value, no side effect.
PortRead(s, p) == IF p \in TimePorts THEN s.tval[p] ELSE s.val[p]

\* The port takes the value and its updated flag is set.
PortSet(s, p, v) ==
    IF p \in TimePorts
    THEN [s EXCEPT !.tval[p] = v, !.upd[p] = TRUE]
    ELSE [s EXCEPT !.val[p] = v, !.upd[p] = TRUE]

\* The same, without the overwrite protection of a slave port.
write_unprotected(s, p, v) ==
    IF s.err # "none" THEN s ELSE PortSet(s, p, v)

\* write(port_id, value): OverwriteError on a slave-bound port that already
\* received a value this tick, which keeps the first value. Nothing is
\* written once an error has been raised (the exception unwinds).
write(s, p, v) ==
    IF s.err # "none" THEN s
    ELSE IF IsSlave(s.wires, p) /\ s.upd[p]
         THEN [s EXCEPT !.err = "OverwriteError"]
         ELSE PortSet(s, p, v)

\* wire() without the fan-in check.
wire_unchecked(s, m, p) == [s EXCEPT !.wires = @ \cup {<<m, p>>}]

\* wire(master, slave): a slave that already has a master is rejected.
wire(s, m, p) ==
    IF IsSlave(s.wires, p)
    THEN [s EXCEPT !.err = "WiringError"]
    ELSE [s EXCEPT !.wires = @ \cup {<<m, p>>}]

\* Propagation along a set of wires: each slave receives its master's value
\* and has its updated flag set.
RECURSIVE PropagateAll(_, _)
PropagateAll(s, ws) ==
    IF ws = {} THEN s
    ELSE LET w == CHOOSE x \in ws : TRUE
         IN  PropagateAll(write(s, w[2], PortRead(s, w[1])), ws \ {w})

\* Propagation that reaches only one of the slaves of each master.
propagate_one(s, outs) ==
    LET ws == {w \in s.wires : w[1] \in outs /\ s.upd[w[1]]}
    IN  IF ws = {} THEN s
        ELSE PropagateAll(s, {CHOOSE x \in ws : TRUE})

\* After a behavior: the values of the updated ports among outs go to every
\* slave wired to them.
propagate(s, outs) ==
    PropagateAll(s, {w \in s.wires : w[1] \in outs /\ s.upd[w[1]]})

----------------------------------------------------------------------------
(* The engine's event queue (package ml, modelled from spec.md 3, 4.2)      *)

is_empty(q) == Len(q) = 0

\* push that ignores the capacity.
push_unbounded(q, cap, policy, v) == Append(q, v)

\* push(value) on a queue of capacity cap: when full, the new value is
\* dropped under "drop_newest" and the oldest one under "drop_oldest".
push(q, cap, policy, v) ==
    IF Len(q) < cap THEN Append(q, v)
    ELSE IF policy = "drop_newest" THEN q
    ELSE Append(Tail(q), v)

\* pop(): the oldest element and the rest (the caller checks is_empty).
pop_value(q) == Head(q)

pop_rest(q) == Tail(q)

\* OnFullBehavior.DROP, given to the Timer in simulate().
TimerOnFull == "drop_newest"

----------------------------------------------------------------------------
(* rising_edge: src/domains/hardware/digital.py                             *)

\* A gate that looks at the level of the port only.
IsRisingEdge_level(prev_val, current_val) == current_val \in {ONE, H}

\* The condition under which the wrapper calls the wrapped behavior.
IsRisingEdge(prev_val, current_val) ==
    prev_val \in {ZERO, L} /\ current_val \in {ONE, H}

\* wrapper(self), first half: peek the port, take _prev_<port> (s.prev,
\* Logic.U as long as the attribute is not set) and compare.
rising_edge_fires(s, part, port) == IsRisingEdge(s.prev[part], s.val[port])

\* A wrapper whose look at the port takes its updated flag away.
rising_edge_record_consuming(s, part, port) ==
    [s EXCEPT !.prev[part] = s.val[port], !.upd[port] = FALSE]

\* wrapper(self), setattr: the current value is recorded, fired or not.
rising_edge_record(s, part, port) == [s EXCEPT !.prev[part] = s.val[port]]

----------------------------------------------------------------------------
(* The parts: src/demos/rtl/register.py                                     *)

\* Register.behavior without the reset branch.
Register_body_noreset(s) ==
    [write(s, "dut.out_0", s.val["dut.in_0"]) EXCEPT !.ran["dut"] = TRUE]

\* The body of Register.behavior (ran: the body was entered in this tick).
Register_body(s) ==
    LET s1 == [s EXCEPT !.ran["dut"] = TRUE]
    IN  IF s1.val["dut.rst"] = ONE
        THEN write(s1, "dut.out_0", ZERO)
        ELSE write(s1, "dut.out_0", s1.val["dut.in_0"])

\* Register.behavior under @rising_edge('clk')
Register_behavior(s) ==
    IF rising_edge_fires(s, "dut", "dut.clk")
    THEN Register_body(rising_edge_record(s, "dut", "dut.clk"))
    ELSE rising_edge_record(s, "dut", "dut.clk")

\* Clock.behavior that reads the head of the queue and leaves it there.
Clock_behavior_nopop(s) ==
    IF ~is_empty(s.queue)
    THEN LET t == pop_value(s.queue)
             state == IF s.state = U THEN ZERO ELSE Invert(s.state)
             s2 == write(s, "clock.time_port", t)
             s3 == write(s2, "clock.clk", state)
         IN  [s3 EXCEPT !.state = state]
    ELSE s

\* Clock.behavior without the case of the first event: ~U from the start.
Clock_behavior_nofirst(s) ==
    IF ~is_empty(s.queue)
    THEN LET t == pop_value(s.queue)
             s1 == [s EXCEPT !.queue = pop_rest(s.queue)]
             state == Invert(s.state)
             s2 == write(s1, "clock.time_port", t)
             s3 == write(s2, "clock.clk", state)
         IN  [s3 EXCEPT !.state = state]
    ELSE s

\* Clock.behavior
Clock_behavior(s) ==
    IF ~is_empty(s.queue)
    THEN LET t == pop_value(s.queue)
             s1 == [s EXCEPT !.queue = pop_rest(s.queue)]
             state == IF s.state = U THEN ZERO ELSE Invert(s.state)
             s2 == write(s1, "clock.time_port", t)
             s3 == write(s2, "clock.clk", state)
         IN  [s3 EXCEPT !.state = state]
    ELSE s

\* The body of Source.behavior
Source_body(s) ==
    LET s1 == [s EXCEPT !.ran["source"] = TRUE]
        s2 == IF s1.cycle < 5
              THEN write(s1, "source.rst", ONE)
              ELSE write(s1, "source.rst", ZERO)
        s3 == IF s2.cycle % 4 = 0
              THEN write(s2, "source.out_0", ONE)
              ELSE write(s2, "source.out_0", ZERO)
    IN  [s3 EXCEPT !.cycle = @ + 1]

\* Source.behavior without the gate: the body at every invocation.
Source_behavior_ungated(s) ==
    Source_body(rising_edge_record(s, "source", "source.clk"))

\* Source.behavior under @rising_edge('clk')
Source_behavior(s) ==
    IF rising_edge_fires(s, "source", "source.clk")
    THEN Source_body(rising_edge_record(s, "source", "source.clk"))
    ELSE rising_edge_record(s, "source", "source.clk")

\* A Sink that writes the value back to the port it read.
Sink_behavior_writes(s) == write(s, "sink.in_0", s.val["sink.in_0"])

\* Sink.behavior: reads in_0 for the trace log.
Sink_behavior(s) == s

----------------------------------------------------------------------------
(* VCDMonitor: src/parts/hardware/digital.py                                *)
(* A line of the log is <<c, n>>: <<"#", timestamp>> for "#<timestamp>",    *)
(* <<bit, i>> for "<bit>v<i>".                                              *)

\* int(time_val * 1000), the time value counted in 1/UnitsPerMs ms.
Timestamp(time_val) == time_val \div UnitsPerMs

\* A mapping that knows the forcing values only.
VcdBit_forcing(v) ==
    IF v = ONE THEN "1"
    ELSE IF v = ZERO THEN "0"
    ELSE IF v = Z THEN "z"
    ELSE "x"

\* vcd_val of VCDMonitor.behavior
VcdBit(v) ==
    IF v \in {ONE, H} THEN "1"
    ELSE IF v \in {ZERO, L} THEN "0"
    ELSE IF v = Z THEN "z"
    ELSE "x"

\* self.file.write(line): ValueError on a closed file.
FileWrite(s, line) ==
    IF s.err # "none" THEN s
    ELSE IF ~s.file.open THEN [s EXCEPT !.err = "ValueError"]
    ELSE [s EXCEPT !.file.lines = Append(@, line)]

\* The loop over signal_vars, from signal i on.
RECURSIVE VcdSignals(_, _)
VcdSignals(s, i) ==
    IF i > Len(Signals) THEN s
    ELSE IF s.upd[MonPort(i)]
         THEN VcdSignals(FileWrite(s, <<VcdBit(s.val[MonPort(i)]), i - 1>>), i + 1)
         ELSE VcdSignals(s, i + 1)

\* A behavior that writes the timestamp line at every invocation with a time.
VCDMonitor_behavior_restamp(s) ==
    LET time_val == s.tval["vcd.time"]
    IN  IF time_val # NoTime
        THEN LET timestamp == Timestamp(time_val)
                 s1 == [FileWrite(s, <<"#", timestamp>>)
                            EXCEPT !.last_timestamp = timestamp]
             IN  VcdSignals(s1, 1)
        ELSE s

\* VCDMonitor.behavior
VCDMonitor_behavior(s) ==
    LET time_val == s.tval["vcd.time"]
    IN  IF time_val # NoTime
        THEN LET timestamp == Timestamp(time_val)
                 s1 == IF timestamp > s.last_timestamp
                       THEN [FileWrite(s, <<"#", timestamp>>)
                                 EXCEPT !.last_timestamp = timestamp]
                       ELSE s
             IN  VcdSignals(s1, 1)
        ELSE s

\* A term that leaves the file open.
VCDMonitor_term_noclose(s) == s

\* VCDMonitor.term
VCDMonitor_term(s) == [s EXCEPT !.file.open = FALSE]

----------------------------------------------------------------------------
(* The Sequential strategy (package ml, modelled from spec.md 4.4)          *)

\* Passes over the children after which a tick that has not reached its
\* fixed point fails with SchedulingNonTermination.
MaxPasses == 6

\* all_updated, the scheduling condition of Source and Register.
all_updated(s, ports) == \A p \in ports : s.upd[p]

\* The default condition: any input port updated. A part without input
\* ports (Clock, which polls its event queue) is invoked in every tick.
any_updated(s, c) == InPorts[c] = {} \/ \E p \in InPorts[c] : s.upd[p]

\* Every part scheduled in every tick.
SchedulingCondition_always(s, c) == TRUE

\* scheduling_condition and scheduling_args given to Part.__init__.
SchedulingCondition(s, c) ==
    IF c = "source" THEN all_updated(s, {"source.clk"})
    ELSE IF c = "dut" THEN all_updated(s, {"dut.clk"})
    ELSE any_updated(s, c)

\* A strategy that forgets which children it has invoked.
HasRun_never(s, c) == FALSE

\* The child's behavior has been invoked in this tick.
HasRun(s, c) == s.invoked[c] > 0

Eligible(s, c) == SchedulingCondition(s, c) /\ ~HasRun(s, c)

Behavior(s, c) ==
    CASE c = "clock"  -> Clock_behavior(s)
      [] c = "source" -> Source_behavior(s)
      [] c = "dut"    -> Register_behavior(s)
      [] c = "sink"   -> Sink_behavior(s)
      [] c = "vcd"    -> VCDMonitor_behavior(s)

\* The child's behavior is invoked, then its outputs are propagated.
Invoke(s, c) ==
    propagate([Behavior(s, c) EXCEPT !.invoked[c] = @ + 1], OutPorts[c])

\* The strategy comes to child c in its pass.
Visit(s, c) ==
    [(IF Eligible(s, c) THEN Invoke(s, c) ELSE s) EXCEPT !.idx = @ + 1]

\* The tick boundary: the updated flags are cleared.
BeginTick(s) ==
    [s EXCEPT !.upd = [p \in DOMAIN s.upd |-> FALSE],
              !.invoked = [c \in ChildSet |-> 0],
              !.ran = [c \in DOMAIN s.ran |-> FALSE],
              !.file.lines = <<>>,
              !.rose = FALSE,
              !.idx = 1,
              !.pass = 1]

\* The end of a pass: another pass when a child has become eligible, a
\* failure after MaxPasses passes.
PassAgain(s) == \E c \in ChildSet : Eligible(s, c)

EndPass(s) ==
    IF s.pass >= MaxPasses
    THEN [s EXCEPT !.err = "SchedulingNonTermination"]
    ELSE [s EXCEPT !.pass = @ + 1, !.idx = 1]

----------------------------------------------------------------------------
(* The state of the Testbench after Testbench('tb')                         *)
(* ran, edges and rose are history: the gated bodies entered in this tick,  *)
(* the rising edges driven on clock.clk so far, and whether the clock drove *)
(* one in this tick. file.lines holds the lines written in this tick.       *)
(* consumed and fired are history too: the timer events the Clock has       *)
(* popped, and the times the body of Register.behavior was entered.         *)

TbInit ==
    [val   |-> [p \in LogicPorts |-> InitValue(p)],
     tval  |-> [p \in TimePorts |-> NoTime],
     upd   |-> [p \in Ports |-> FALSE],
     wires |-> Wiring,
     err   |-> "none",
     queue |-> <<>>,
     state |-> U,
     cycle |-> 0,
     prev  |-> [source |-> U, dut |-> U],
     last_timestamp |-> -1,
     file  |-> [open |-> TRUE, lines |-> <<>>],
     invoked |-> [c \in ChildSet |-> 0],
     ran   |-> [source |-> FALSE, dut |-> FALSE],
     edges |-> 0,
     rose  |-> FALSE,
     consumed |-> 0,
     fired |-> 0,
     idx   |-> 1,
     pass  |-> 1]

\* The history of rising edges, kept beside a visit of the clock.
NoteEdge(old, new) ==
    IF new.upd["clock.clk"] /\ ~old.upd["clock.clk"]
       /\ IsRisingEdge(old.val["clock.clk"], new.val["clock.clk"])
    THEN [new EXCEPT !.edges = @ + 1, !.rose = TRUE]
    ELSE new

\* The history of consumed events, kept beside a visit of the clock.
NotePop(old, new) ==
    IF Len(new.queue) < Len(old.queue)
    THEN [new EXCEPT !.consumed = @ + 1]
    ELSE new

\* The history of the Register's firings, kept beside a visit of it.
NoteFired(old, new) ==
    IF new.ran["dut"] /\ ~old.ran["dut"]
    THEN [new EXCEPT !.fired = @ + 1]
    ELSE new

----------------------------------------------------------------------------
(* simulate(): src/demos/rtl/register.py                                    *)
(* Three threads: simulate() itself (mainpc), the run loop started by       *)
(* tb.start (loop), and the Timer (timer).                                  *)

simVars == <<tb, loop, timer, mainpc, termed>>

\* The variables of the specifications of single components further down.
libVars == <<lg, mon, llm, ser, ck, imp>>

otherVars == <<gate, eng, evq, det, libVars>>

Idle == "idle"

libIdle ==
    /\ lg = Idle /\ mon = Idle /\ llm = Idle /\ ser = Idle
    /\ ck = Idle /\ imp = Idle

SimInit ==
    /\ tb = TbInit
    /\ loop = "new"
    /\ timer = [started |-> FALSE, n |-> 0, stop |-> FALSE]
    /\ mainpc = "constructed"
    /\ termed = {}
    /\ gate = Idle
    /\ eng = Idle
    /\ evq = Idle
    /\ det = Idle
    /\ libIdle

\* tb.init(): every port back to its initial value.
tb_init ==
    /\ mainpc = "constructed"
    /\ tb' = [tb EXCEPT !.val = [p \in LogicPorts |-> InitValue(p)],
                        !.tval = [p \in TimePorts |-> NoTime],
                        !.upd = [p \in Ports |-> FALSE]]
    /\ mainpc' = "inited"
    /\ UNCHANGED <<loop, timer, termed, otherVars>>

\* tb.start(lambda _: timer.stop_event_is_set())
tb_start ==
    /\ mainpc = "inited"
    /\ loop' = "run"
    /\ mainpc' = "started"
    /\ UNCHANGED <<tb, timer, termed, otherVars>>

\* timer.start()
timer_start ==
    /\ mainpc = "started"
    /\ timer' = [timer EXCEPT !.started = TRUE]
    /\ mainpc' = "waiting"
    /\ UNCHANGED <<tb, loop, termed, otherVars>>

\* The Timer thread pushes the time of its next interval.
TimerPush ==
    /\ timer.started /\ ~timer.stop
    /\ timer.n < MaxTimerEvents
    /\ tb' = [tb EXCEPT !.queue =
                  push(@, QueueSize, TimerOnFull, (timer.n + 1) * Interval)]
    /\ timer' = [timer EXCEPT !.n = @ + 1]
    /\ UNCHANGED <<loop, mainpc, termed, otherVars>>

\* The Timer's duration is over: it sets its stop event.
TimerStop ==
    /\ timer.started /\ ~timer.stop
    /\ timer.n = MaxTimerEvents
    /\ timer' = [timer EXCEPT !.stop = TRUE]
    /\ UNCHANGED <<tb, loop, mainpc, termed, otherVars>>

\* The run loop: the predicate says continue, a tick begins.
LoopTick ==
    /\ loop = "run"
    /\ ~timer.stop
    /\ tb' = BeginTick(tb)
    /\ loop' = "tick"
    /\ UNCHANGED <<timer, mainpc, termed, otherVars>>

\* The run loop: the timer has stopped, the loop ends.
LoopExit ==
    /\ loop = "run"
    /\ timer.stop
    /\ loop' = "exited"
    /\ UNCHANGED <<tb, timer, mainpc, termed, otherVars>>

Visiting(c) ==
    /\ loop = "tick"
    /\ tb.err = "none"
    /\ tb.idx <= Len(Children)
    /\ Children[tb.idx] = c

VisitClock ==
    /\ Visiting("clock")
    /\ tb' = NotePop(tb, NoteEdge(tb, Visit(tb, "clock")))
    /\ UNCHANGED <<loop, timer, mainpc, termed, otherVars>>

VisitSource ==
    /\ Visiting("source")
    /\ tb' = Visit(tb, "source")
    /\ UNCHANGED <<loop, timer, mainpc, termed, otherVars>>

VisitDut ==
    /\ Visiting("dut")
    /\ tb' = NoteFired(tb, Visit(tb, "dut"))
    /\ UNCHANGED <<loop, timer, mainpc, termed, otherVars>>

VisitSink ==
    /\ Visiting("sink")
    /\ tb' = Visit(tb, "sink")
    /\ UNCHANGED <<loop, timer, mainpc, termed, otherVars>>

VisitVcd ==
    /\ Visiting("vcd")
    /\ tb' = Visit(tb, "vcd")
    /\ UNCHANGED <<loop, timer, mainpc, termed, otherVars>>

\* The pass is over, or an error was raised: the tick ends at its fixed
\* point, goes through another pass, or ends the loop with the error.
PassEnd ==
    /\ loop = "tick"
    /\ IF tb.err # "none"
       THEN loop' = "exited" /\ tb' = tb
       ELSE /\ tb.idx > Len(Children)
            /\ IF PassAgain(tb)
               THEN /\ tb' = EndPass(tb)
                    /\ loop' = IF tb'.err # "none" THEN "exited" ELSE "tick"
               ELSE tb' = tb /\ loop' = "run"
    /\ UNCHANGED <<timer, mainpc, termed, otherVars>>

\* tb.wait(): the run loop has ended.
tb_wait ==
    /\ mainpc = "waiting"
    /\ loop = "exited"
    /\ mainpc' = "joined"
    /\ UNCHANGED <<tb, loop, timer, termed, otherVars>>

\* term() of one child: VCDMonitor overrides it, the others keep Part's.
Part_term(s, c) == IF c = "vcd" THEN VCDMonitor_term(s) ELSE s

RECURSIVE TermFrom(_, _)
TermFrom(s, i) ==
    IF i > Len(Children) THEN s
    ELSE TermFrom(Part_term(s, Children[i]), i + 1)

\* A simulate() that returns without tb.term().
tb_term_skipped ==
    /\ mainpc = "joined"
    /\ mainpc' = "returned"
    /\ UNCHANGED <<tb, loop, timer, termed, otherVars>>

\* tb.term(), then simulate() returns.
tb_term ==
    /\ mainpc = "joined"
    /\ tb' = TermFrom(tb, 1)
    /\ termed' = ChildSet \cup {"tb"}
    /\ mainpc' = "returned"
    /\ UNCHANGED <<loop, timer, otherVars>>

TimerThread == TimerPush \/ TimerStop

LoopThread ==
    \/ LoopTick \/ LoopExit \/ PassEnd
    \/ VisitClock \/ VisitSource \/ VisitDut \/ VisitSink \/ VisitVcd

MainThread == tb_init \/ tb_start \/ timer_start \/ tb_wait \/ tb_term

Next == MainThread \/ TimerThread \/ LoopThread

Spec == SimInit /\ [][Next]_vars

\* When each thread can take a step: ENABLED <<MainThread>>_vars and so on,
\* written out from the guards of the actions.
MainEnabled ==
    \/ mainpc \in {"constructed", "inited", "started", "joined"}
    \/ mainpc = "waiting" /\ loop = "exited"

TimerEnabled == timer.started /\ ~timer.stop

LoopEnabled == loop \in {"run", "tick"}

\* Weak fairness of each thread (the operating system schedules every
\* runnable thread): a thread that can take a step for ever takes one. This
\* is WF_vars(T) with ENABLED <<T>>_vars written out as above.
FairSpec ==
    /\ Spec
    /\ ([]<>(~MainEnabled) \/ []<><<MainThread>>_vars)
    /\ ([]<>(~TimerEnabled) \/ []<><<TimerThread>>_vars)
    /\ ([]<>(~LoopEnabled) \/ []<><<LoopThread>>_vars)

----------------------------------------------------------------------------
(* Properties of the Testbench run (Spec, FairSpec)                         *)

\* The strategy has come to child c in the current pass.
Visited(c) == \E i \in 1..Len(Children) : Children[i] = c /\ i < tb.idx

\* What the end-to-end scenario expects Source to drive on in_0 on rising
\* edge number k (counted from 0).
ExpectedIn(k) == IF k % 4 = 0 THEN ONE ELSE ZERO

\* C1: in a tick in which the clock drove rising edge number k, Source
\* drives rst = ONE for k < 5 and in_0 = ONE exactly for k = 0, 4, 8, ...,
\* and the Register writes out_0 = ZERO for k < 5 and, for k >= 5, the value
\* Source drove on in_0 on that same edge.
C1_ResetThenMirror ==
    tb.rose =>
        LET k == tb.edges - 1
        IN  /\ Visited("source") =>
                /\ tb.ran["source"]
                /\ tb.val["source.out_0"] = ExpectedIn(k)
                /\ tb.val["dut.in_0"] = ExpectedIn(k)
                /\ tb.val["dut.rst"] = (IF k < 5 THEN ONE ELSE ZERO)
            /\ Visited("dut") =>
                /\ tb.ran["dut"]
                /\ tb.upd["dut.out_0"]
                /\ tb.val["dut.out_0"] =
                       (IF k < 5 THEN ZERO ELSE tb.val["source.out_0"])

\* Rising edge number 8: the reset is over, in_0 is ONE again and out_0
\* mirrors it.
C1_Witness ==
    /\ tb.rose /\ tb.edges = 9 /\ Visited("dut")
    /\ tb.val["dut.rst"] = ZERO
    /\ tb.val["dut.in_0"] = ONE
    /\ tb.val["dut.out_0"] = ONE

\* C3: no behavior is invoked more than once in a tick, and a part with the
\* default condition (Sink, VCDMonitor) is not invoked in a tick in which
\* none of its input ports was updated.
C3_AtMostOncePerTick ==
    /\ \A c \in ChildSet : tb.invoked[c] <= 1
    /\ \A c \in {"sink", "vcd"} :
           (\A p \in InPorts[c] : ~tb.upd[p]) => tb.invoked[c] = 0

\* A tick in which all five inputs of the monitor changed and it was invoked
\* once.
C3_Witness ==
    /\ tb.invoked["vcd"] = 1
    /\ \A p \in InPorts["vcd"] : tb.upd[p]
    /\ loop = "run"

\* C9: once the timer has stopped, simulate() returns, and when it has
\* returned term() was invoked on every part and the monitor's file is
\* closed; nothing is written to the file once it is closed.
C9_TermOnCancel ==
    /\ (timer.stop ~> mainpc = "returned")
    /\ [](mainpc = "returned" =>
             termed = ChildSet \cup {"tb"} /\ ~tb.file.open)
    /\ [](tb.err # "ValueError")
    /\ [][~tb.file.open => tb'.file = tb.file]_vars

\* simulate() has returned after a run that wrote to the log.
C9_Witness ==
    /\ mainpc = "returned"
    /\ ~tb.file.open
    /\ tb.last_timestamp > 0
    /\ termed = ChildSet \cup {"tb"}

\* C10: no tick fails with SchedulingNonTermination, no tick goes beyond
\* MaxPasses passes, and every tick that begins ends.
C10_TickTerminates ==
    /\ [](tb.err # "SchedulingNonTermination" /\ tb.pass <= MaxPasses)
    /\ [](loop = "tick" => <>(loop # "tick"))
    /\ [](loop = "tick" /\ tb.idx > Len(Children) => ~PassAgain(tb))

\* A tick in which every child was invoked has ended at its fixed point.
C10_Witness ==
    /\ loop = "run"
    /\ \A c \in ChildSet : tb.invoked[c] = 1
    /\ tb.pass = 1
    /\ ~PassAgain(tb)

----------------------------------------------------------------------------
(* SpecGate: a rising_edge-wrapped behavior invoked on any sequence of      *)
(* Logic values of its port.                                                *)
(*   gate.seen  : the values the port held at the invocations so far        *)
(*   gate.fired : the invocations (counted from 0) that called the body     *)

simIdle ==
    /\ tb = Idle /\ loop = Idle /\ timer = Idle /\ mainpc = Idle
    /\ termed = Idle

GateInit ==
    /\ gate = [val |-> [clk |-> U], prev |-> [gate |-> U], calls |-> 0,
               seen |-> <<>>, fired |-> {}]
    /\ simIdle /\ libIdle
    /\ eng = Idle /\ evq = Idle /\ det = Idle

\* The wrapped behavior: it counts its calls.
GateBody(s) == [s EXCEPT !.calls = @ + 1]

\* The port holds v and the wrapped behavior is invoked.
GateInvoke ==
    /\ Len(gate.seen) < MaxGateLen
    /\ \E v \in Logic :
           LET s0 == [gate EXCEPT !.val.clk = v]
               s1 == IF rising_edge_fires(s0, "gate", "clk")
                     THEN GateBody(rising_edge_record(s0, "gate", "clk"))
                     ELSE rising_edge_record(s0, "gate", "clk")
           IN  gate' = [s1 EXCEPT
                            !.seen = Append(@, v),
                            !.fired = IF s1.calls > gate.calls
                                      THEN @ \cup {Len(gate.seen)}
                                      ELSE @]
    /\ UNCHANGED <<simVars, libVars, eng, evq, det>>

SpecGate == GateInit /\ [][GateInvoke]_vars

\* The value seen at invocation i, counted from 0; U before the first.
SeenAt(i) == IF i < 0 THEN U ELSE gate.seen[i + 1]

\* C2: invocation i calls the wrapped behavior exactly when the value seen
\* at invocation i-1 is ZERO or L and the value at invocation i is ONE or H
\* (U stands before the first invocation); the recorded previous value is
\* the last value seen, fired or not; and the sequence U,0,1,1,0,1 fires at
\* invocations 2 and 5 only.
C2_GateFiresOnRisingEdge ==
    /\ \A i \in 0..(Len(gate.seen) - 1) :
           i \in gate.fired <=>
               (SeenAt(i - 1) \in {ZERO, L} /\ SeenAt(i) \in {ONE, H})
    /\ gate.prev.gate = SeenAt(Len(gate.seen) - 1)
    /\ gate.calls = Cardinality(gate.fired)
    /\ gate.seen = <<U, ZERO, ONE, ONE, ZERO, ONE>> => gate.fired = {2, 5}

C2_Witness ==
    /\ gate.seen = <<U, ZERO, ONE, ONE, ZERO, ONE>>
    /\ gate.fired = {2, 5}
    /\ gate.prev.gate = ONE

----------------------------------------------------------------------------
(* SpecEngine: ports and wiring on their own. Any wire calls over a master  *)
(* with its three slaves of the Testbench and a second master, then any     *)
(* writes (by a part to a master port, or injected into a slave port) and   *)
(* tick boundaries.                                                         *)
(*   eng.first : the first value each port received in the current tick     *)
(*   eng.last  : the last call: its kind, its port, and whether the port     *)
(*               had already a master (wire) or a value of this tick (write) *)

EngMasters == {"clock.clk", "source.rst"}

EngSlaves == {"source.clk", "dut.clk", "vcd.clock.clk"}

EngPorts == EngMasters \cup EngSlaves

EngInit ==
    /\ eng = [val   |-> [p \in EngPorts |-> U],
              upd   |-> [p \in EngPorts |-> FALSE],
              wires |-> {},
              err   |-> "none",
              phase |-> "wiring",
              ticks |-> 0,
              writes |-> 0,
              first |-> [p \in EngPorts |-> None],
              last  |-> [op |-> "none", port |-> "none", dup |-> FALSE]]
    /\ simIdle /\ libIdle
    /\ gate = Idle /\ evq = Idle /\ det = Idle

\* The first value of the tick of each port that has just been updated.
NoteFirst(old, new) ==
    [new EXCEPT !.first = [p \in EngPorts |->
        IF new.upd[p] /\ ~old.upd[p] THEN new.val[p] ELSE old.first[p]]]

\* A call of wire(m, p) while the structure is built.
EngWire ==
    /\ eng.phase = "wiring"
    /\ \E m \in EngMasters, p \in EngSlaves :
           /\ <<m, p>> \notin eng.wires
           /\ eng' = [wire([eng EXCEPT !.err = "none"], m, p) EXCEPT
                          !.last = [op |-> "wire", port |-> p,
                                    dup |-> IsSlave(eng.wires, p)]]
    /\ UNCHANGED <<simVars, libVars, gate, evq, det>>

\* init(): the structure is complete, the ports hold their initial values.
EngStart ==
    /\ eng.phase = "wiring"
    /\ eng' = [eng EXCEPT !.phase = "running", !.err = "none",
                          !.last = [op |-> "none", port |-> "none",
                                    dup |-> FALSE]]
    /\ UNCHANGED <<simVars, libVars, gate, evq, det>>

\* A write of v to port p, propagated to the slaves of p.
EngWrite ==
    /\ eng.phase = "running"
    /\ eng.writes < MaxEngWrites
    /\ \E p \in EngPorts, v \in {ZERO, ONE} :
           LET s0 == [eng EXCEPT !.err = "none", !.writes = @ + 1]
               s1 == propagate(write(s0, p, v), {p})
           IN  eng' = [NoteFirst(eng, s1) EXCEPT
                           !.last = [op |-> "write", port |-> p,
                                     dup |-> eng.upd[p]]]
    /\ UNCHANGED <<simVars, libVars, gate, evq, det>>

\* The tick boundary: the updated flags are cleared.
EngTick ==
    /\ eng.phase = "running"
    /\ eng.ticks < MaxEngTicks
    /\ eng' = [eng EXCEPT !.upd = [p \in EngPorts |-> FALSE],
                          !.first = [p \in EngPorts |-> None],
                          !.err = "none",
                          !.ticks = @ + 1,
                          !.last = [op |-> "none", port |-> "none",
                                    dup |-> FALSE]]
    /\ UNCHANGED <<simVars, libVars, gate, evq, det>>

EngNext == EngWire \/ EngStart \/ EngWrite \/ EngTick

SpecEngine == EngInit /\ [][EngNext]_vars

\* C5: a write to a slave-bound port that already received a value in this
\* tick raises OverwriteError, and a slave-bound port keeps the first value
\* it received in the tick until the tick boundary.
C5_OverwriteProtected ==
    /\ (eng.last.op = "write" /\ eng.last.dup
            /\ IsSlave(eng.wires, eng.last.port))
           => eng.err = "OverwriteError"
    /\ \A p \in EngPorts :
           IsSlave(eng.wires, p) /\ eng.upd[p] => eng.val[p] = eng.first[p]

\* dut.clk received ZERO from clock.clk, and a second write, of ONE, was
\* refused.
C5_Witness ==
    /\ eng.last = [op |-> "write", port |-> "dut.clk", dup |-> TRUE]
    /\ <<"clock.clk", "dut.clk">> \in eng.wires
    /\ eng.err = "OverwriteError"
    /\ eng.val["dut.clk"] = ZERO
    /\ eng.val["clock.clk"] = ZERO

\* C6: every slave has at most one master; wiring a slave that has a master
\* is rejected; and after a write to a master that raised no error every
\* slave wired to it holds the value written, with its updated flag set.
C6_FanOutNoFanIn ==
    /\ \A p \in EngPorts : Cardinality(MastersOf(eng.wires, p)) <= 1
    /\ (eng.last.op = "wire" /\ eng.last.dup) => eng.err = "WiringError"
    /\ (eng.last.op = "write" /\ eng.err = "none") =>
           \A p \in SlavesOf(eng.wires, eng.last.port) :
               eng.val[p] = eng.val[eng.last.port] /\ eng.upd[p]

\* clock.clk is wired as in the Testbench, to source.clk, dut.clk and the
\* monitor's clock.clk port; ONE written to it reached all three.
C6_Witness ==
    /\ eng.wires = {<<"clock.clk", "source.clk">>, <<"clock.clk", "dut.clk">>,
                    <<"clock.clk", "vcd.clock.clk">>}
    /\ eng.last = [op |-> "write", port |-> "clock.clk", dup |-> FALSE]
    /\ eng.err = "none"
    /\ \A p \in EngSlaves : eng.val[p] = ONE /\ eng.upd[p]

----------------------------------------------------------------------------
(* SpecQueue: an event queue between the Timer thread, which pushes, and    *)
(* Clock.behavior, which pops after is_empty() returned false. Any capacity *)
(* up to MaxCap and either drop policy; the values pushed are 1, 2, ...     *)
(*   evq.kept   : the values pushed and not dropped, in the order pushed    *)
(*   evq.popped : the values popped, in the order popped                    *)

QueueInit ==
    /\ \E cap \in 1..MaxCap, policy \in {"drop_newest", "drop_oldest"} :
           evq = [cap |-> cap, policy |-> policy, items |-> <<>>, n |-> 0,
                  pc |-> "idle", err |-> "none",
                  kept |-> <<>>, popped |-> <<>>]
    /\ simIdle /\ libIdle
    /\ gate = Idle /\ eng = Idle /\ det = Idle

\* The sequence without its i-th element.
RemoveAt(seq, i) == SubSeq(seq, 1, i - 1) \o SubSeq(seq, i + 1, Len(seq))

\* The Timer thread pushes its next value.
QueuePush ==
    /\ evq.n < MaxPush
    /\ LET v == evq.n + 1
           full == Len(evq.items) >= evq.cap
       IN  evq' = [evq EXCEPT
               !.items = push(@, evq.cap, evq.policy, v),
               !.n = v,
               !.kept = IF ~full THEN Append(@, v)
                        ELSE IF evq.policy = "drop_newest" THEN @
                        ELSE Append(RemoveAt(@, Len(evq.popped) + 1), v)]
    /\ UNCHANGED <<simVars, libVars, gate, eng, det>>

\* Clock.behavior: if not event_queue.is_empty()
QueueCheck ==
    /\ evq.pc = "idle"
    /\ evq' = [evq EXCEPT !.pc = IF is_empty(evq.items) THEN "idle" ELSE "pop"]
    /\ evq.pc # evq'.pc
    /\ UNCHANGED <<simVars, libVars, gate, eng, det>>

\* A pop that returns the oldest element and leaves it in the queue.
QueuePop_peek ==
    /\ evq.pc = "pop"
    /\ evq' = IF is_empty(evq.items)
              THEN [evq EXCEPT !.err = "EmptyQueueError", !.pc = "idle"]
              ELSE [evq EXCEPT !.popped = Append(@, pop_value(evq.items)),
                               !.pc = "idle"]
    /\ UNCHANGED <<simVars, libVars, gate, eng, det>>

\* Clock.behavior: t = event_queue.pop()
QueuePop ==
    /\ evq.pc = "pop"
    /\ evq' = IF is_empty(evq.items)
              THEN [evq EXCEPT !.err = "EmptyQueueError", !.pc = "idle"]
              ELSE [evq EXCEPT !.popped = Append(@, pop_value(evq.items)),
                               !.items = pop_rest(evq.items),
                               !.pc = "idle"]
    /\ UNCHANGED <<simVars, libVars, gate, eng, det>>

QueueNext == QueuePush \/ QueueCheck \/ QueuePop

SpecQueue == QueueInit /\ [][QueueNext]_vars

\* C7: on a queue of size 1, after two pushes and no pop, the queue holds
\* one value, the first under drop-newest and the second under drop-oldest,
\* and no error was raised.
C7_OverflowPolicy ==
    (evq.cap = 1 /\ evq.n = 2 /\ evq.popped = <<>>) =>
        /\ evq.err = "none"
        /\ Len(evq.items) = 1
        /\ evq.items = (IF evq.policy = "drop_newest" THEN <<1>> ELSE <<2>>)

\* Two pushes on a size-1 drop-oldest queue: the second value is kept.
C7_Witness ==
    /\ evq.cap = 1 /\ evq.n = 2 /\ evq.popped = <<>>
    /\ evq.policy = "drop_oldest"
    /\ evq.items = <<2>>

\* C8: the queue never holds more than its capacity; the values popped,
\* followed by those still queued, are the values pushed and not dropped, in
\* the order they were pushed, none of them twice; and no pop finds the
\* queue empty.
C8_BoundedFifo ==
    /\ Len(evq.items) <= evq.cap
    /\ evq.popped \o evq.items = evq.kept
    /\ \A i, j \in 1..Len(evq.kept) : i < j => evq.kept[i] < evq.kept[j]
    /\ evq.err = "none"

\* A capacity-2 queue that dropped a value and gave the others in order.
C8_Witness ==
    /\ evq.cap = 2
    /\ evq.policy = "drop_oldest"
    /\ evq.popped = <<2, 3>>
    /\ evq.items = <<4>>

----------------------------------------------------------------------------
(* SpecDet: two independent runs, a and b, of the Testbench under the       *)
(* Sequential strategy, given the same stimulus: det.stim[k] says whether a *)
(* timer event (of time k * Interval) is in the queue when tick k begins.   *)
(* Each run goes through its ticks child by child at its own pace.          *)
(*   det.left : the children the current pass has still to come to          *)
(*   det.obs  : per run, the observations so far: for each invoked child    *)
(*              that wrote, the tick, the values written to its ports and   *)
(*              the lines the monitor wrote                                 *)

Runs == {"a", "b"}

DetInit ==
    /\ det = [run  |-> [r \in Runs |-> TbInit],
              pc   |-> [r \in Runs |-> "run"],
              done |-> [r \in Runs |-> 0],
              left |-> [r \in Runs |-> {}],
              stim |-> <<>>,
              obs  |-> [r \in Runs |-> <<>>]]
    /\ simIdle /\ libIdle
    /\ gate = Idle /\ eng = Idle /\ evq = Idle

\* The stimulus of one more tick is fixed.
DetStimulus ==
    /\ Len(det.stim) < MaxDetTicks
    /\ \E e \in BOOLEAN : det' = [det EXCEPT !.stim = Append(@, e)]
    /\ UNCHANGED <<simVars, libVars, gate, eng, evq>>

\* Run r begins its next tick with the stimulus of that tick.
DetBegin(r) ==
    /\ det.pc[r] = "run"
    /\ det.done[r] < Len(det.stim)
    /\ LET k == det.done[r] + 1
           s == det.run[r]
           s0 == IF det.stim[k]
                 THEN [s EXCEPT !.queue =
                           push(@, QueueSize, TimerOnFull, k * Interval)]
                 ELSE s
       IN  det' = [det EXCEPT !.run[r] = BeginTick(s0),
                              !.pc[r] = "tick",
                              !.left[r] = ChildSet]
    /\ UNCHANGED <<simVars, libVars, gate, eng, evq>>

\* A strategy that takes the children of a pass in any order.
NextInPass_any(s, left) == left

\* Sequential: the next child of the pass is the next in declaration order.
NextInPass(s, left) ==
    IF s.idx \in 1..Len(Children) THEN {Children[s.idx]} \cap left ELSE {}

\* What an observer sees of the visit of child c in tick k.
Observation(old, new, c, k) ==
    [tick  |-> k,
     part  |-> c,
     logic |-> {<<p, new.val[p]>> :
                   p \in {q \in OutPorts[c] \cap LogicPorts : new.upd[q]}},
     time  |-> IF c = "clock" /\ new.upd["clock.time_port"]
               THEN new.tval["clock.time_port"] ELSE NoTime,
     lines |-> IF c = "vcd" THEN new.file.lines ELSE <<>>]

Observed(old, new, c, k) ==
    IF new.invoked[c] > old.invoked[c]
    THEN <<Observation(old, new, c, k)>>
    ELSE <<>>

\* Run r comes to its next child.
DetVisit(r) ==
    /\ det.pc[r] = "tick"
    /\ det.run[r].err = "none"
    /\ \E c \in NextInPass(det.run[r], det.left[r]) :
           LET old == det.run[r]
               new == Visit(old, c)
           IN  det' = [det EXCEPT
                   !.run[r] = new,
                   !.left[r] = @ \ {c},
                   !.obs[r] = @ \o Observed(old, new, c, det.done[r] + 1)]
    /\ UNCHANGED <<simVars, libVars, gate, eng, evq>>

\* Run r is at the end of a pass: another pass, or the end of the tick.
DetEndPass(r) ==
    /\ det.pc[r] = "tick"
    /\ (IF det.run[r].err = "none" THEN det.left[r] = {} ELSE TRUE)
    /\ IF det.run[r].err = "none" /\ PassAgain(det.run[r])
       THEN det' = [det EXCEPT !.run[r] = EndPass(@), !.left[r] = ChildSet]
       ELSE det' = [det EXCEPT !.pc[r] = "run", !.done[r] = @ + 1,
                               !.left[r] = {}]
    /\ UNCHANGED <<simVars, libVars, gate, eng, evq>>

DetNext ==
    \/ DetStimulus
    \/ \E r \in Runs : DetBegin(r) \/ DetVisit(r) \/ DetEndPass(r)

SpecDet == DetInit /\ [][DetNext]_vars

\* The observations of run r in its first n ticks.
RECURSIVE ObsUpTo(_, _)
ObsUpTo(o, n) ==
    IF o = <<>> THEN <<>>
    ELSE IF Head(o).tick <= n THEN <<Head(o)>> \o ObsUpTo(Tail(o), n)
    ELSE ObsUpTo(Tail(o), n)

----------------------------------------------------------------------------
(* SpecLogic: Logic values put through Logic.__invert__ and through the     *)
(* bit mapping of the VCD monitor.                                          *)
(*   lg.inv  : <<v, ~v>> for each value inverted so far                     *)
(*   lg.bits : <<v, bit>> for each value mapped so far                      *)

LogicInit ==
    /\ simIdle
    /\ gate = Idle /\ eng = Idle /\ evq = Idle /\ det = Idle
    /\ mon = Idle /\ llm = Idle /\ ser = Idle /\ ck = Idle /\ imp = Idle
    /\ lg = [inv |-> <<>>, bits |-> <<>>]

\* ~v on a Logic value v
LogicInvert ==
    /\ Len(lg.inv) + Len(lg.bits) < MaxLogicLen
    /\ \E v \in Logic : lg' = [lg EXCEPT !.inv = Append(@, <<v, Invert(v)>>)]
    /\ UNCHANGED <<simVars, gate, eng, evq, det, mon, llm, ser,
                 ck, imp>>

\* The monitor's bit for a Logic value v
LogicDump ==
    /\ Len(lg.inv) + Len(lg.bits) < MaxLogicLen
    /\ \E v \in Logic : lg' = [lg EXCEPT !.bits = Append(@, <<v, VcdBit(v)>>)]
    /\ UNCHANGED <<simVars, gate, eng, evq, det, mon, llm, ser,
                 ck, imp>>

LogicNext == LogicInvert \/ LogicDump

SpecLogic == LogicInit /\ [][LogicNext]_vars

\* C11: inversion gives a Logic value for each of the 9 Logic values:
\* ~ZERO = ONE, ~ONE = ZERO, ~L = H, ~H = L, and X for U, X, Z, W and
\* DONT_CARE.
C11_InvertTotal ==
    \A i \in 1..Len(lg.inv) :
        LET v == lg.inv[i][1]
            r == lg.inv[i][2]
        IN  /\ r \in Logic
            /\ v = ZERO => r = ONE
            /\ v = ONE => r = ZERO
            /\ v = L => r = H
            /\ v = H => r = L
            /\ v \in {U, X, Z, W, DONT_CARE} => r = X

\* A forcing value, a weak value and a value without an inverse were
\* inverted.
C11_Witness ==
    /\ Len(lg.inv) = 3
    /\ lg.inv[1] = <<ZERO, ONE>>
    /\ lg.inv[2] = <<L, H>>
    /\ lg.inv[3] = <<W, X>>

\* C12: every Logic value is mapped to one bit character: ONE and H to "1",
\* ZERO and L to "0", Z to "z", and U, X, W and DONT_CARE to "x".
C12_VcdBitMapping ==
    \A i \in 1..Len(lg.bits) :
        LET v == lg.bits[i][1]
            b == lg.bits[i][2]
        IN  /\ b \in {"0", "1", "x", "z"}
            /\ v \in {ONE, H} => b = "1"
            /\ v \in {ZERO, L} => b = "0"
            /\ v = Z => b = "z"
            /\ v \in {U, X, W, DONT_CARE} => b = "x"

\* A weak one, high impedance and don't-care were mapped.
C12_Witness ==
    /\ Len(lg.bits) = 3
    /\ lg.bits[1] = <<H, "1">>
    /\ lg.bits[2] = <<Z, "z">>
    /\ lg.bits[3] = <<DONT_CARE, "x">>

----------------------------------------------------------------------------
(* SpecVcd: a VCDMonitor invoked on any sequence of updates of its ports.   *)
(* mon holds the monitor's ports (tval, upd, val), its last_timestamp and   *)
(* its file, whose lines are kept from the first one on, and                *)
(*   mon.obs   : <<timestamp, signal, bit>> for every updated port the      *)
(*               monitor came to in its loop, in the order it came to them  *)
(*   mon.calls : the invocations so far                                     *)

\* The time values the time port receives: 0.5 ms, 1 ms and 1.5 ms, that
\* is timestamps 0, 1 and 1.
MonTimes == {1, 2, 3}

\* The values the monitored ports receive.
MonValues == {ZERO, ONE}

MonSignals == 1..Len(Signals)

MonInit ==
    /\ simIdle
    /\ gate = Idle /\ eng = Idle /\ evq = Idle /\ det = Idle
    /\ lg = Idle /\ llm = Idle /\ ser = Idle /\ ck = Idle /\ imp = Idle
    /\ mon = [tval |-> [p \in {"vcd.time"} |-> NoTime],
              upd  |-> [p \in InPorts["vcd"] |-> FALSE],
              val  |-> [p \in InPorts["vcd"] \ {"vcd.time"} |-> InitValue(p)],
              err  |-> "none",
              file |-> [open |-> TRUE, lines |-> <<>>],
              last_timestamp |-> -1,
              obs  |-> <<>>,
              calls |-> 0]

\* The propagation into the monitor's ports before it is invoked: the
\* flags of the tick before are cleared, then the time port takes t (NoTime:
\* it receives nothing in this tick) and signal i takes drive[i] (None: it
\* receives nothing).
MonPropagate(s, t, drive) ==
    [s EXCEPT
       !.tval = [p \in DOMAIN s.tval |-> IF t = NoTime THEN s.tval[p] ELSE t],
       !.upd = [p \in DOMAIN s.upd |->
                  IF p = "vcd.time" THEN t # NoTime
                  ELSE \E i \in MonSignals : p = MonPort(i) /\ drive[i] # None],
       !.val = [p \in DOMAIN s.val |->
                  LET i == CHOOSE j \in MonSignals : p = MonPort(j)
                  IN  IF drive[i] = None THEN s.val[p] ELSE drive[i]]]

\* What the monitor observes in one invocation, from signal i on: the
\* timestamp of the invocation, the signal and the bit of every updated port.
RECURSIVE MonObserved(_, _)
MonObserved(s, i) ==
    IF i > Len(Signals) THEN <<>>
    ELSE (IF s.upd[MonPort(i)]
          THEN << <<Timestamp(s.tval["vcd.time"]), i - 1,
                    VcdBit(s.val[MonPort(i)])>> >>
          ELSE <<>>) \o MonObserved(s, i + 1)

\* One invocation of VCDMonitor.behavior (the monitor's condition is the
\* default one: some input port was updated).
MonInvoke ==
    /\ mon.calls < MaxMonCalls
    /\ \E t \in MonTimes \cup {NoTime},
          drive \in [MonSignals -> MonValues \cup {None}] :
         /\ t # NoTime \/ \E i \in MonSignals : drive[i] # None
         /\ LET s == MonPropagate(mon, t, drive)
                seen == IF s.tval["vcd.time"] # NoTime
                        THEN MonObserved(s, 1) ELSE <<>>
            IN  mon' = [VCDMonitor_behavior(s) EXCEPT
                          !.obs = @ \o seen, !.calls = @ + 1]
    /\ UNCHANGED <<simVars, gate, eng, evq, det, lg, llm, ser,
                 ck, imp>>

MonNext == MonInvoke

SpecVcd == MonInit /\ [][MonNext]_vars

\* Re-parsing the log from line i on: a value-change line belongs to the
\* most recent "#<timestamp>" line before it (cur).
RECURSIVE Reparse(_, _, _)
Reparse(lines, i, cur) ==
    IF i > Len(lines) THEN <<>>
    ELSE IF lines[i][1] = "#" THEN Reparse(lines, i + 1, lines[i][2])
    ELSE << <<cur, lines[i][2], lines[i][1]>> >> \o Reparse(lines, i + 1, cur)

\* C13: after any sequence of invocations, re-parsing the log gives the
\* sequence of <<timestamp, signal, bit>> observations the monitor made,
\* also when an invocation carries the same or a smaller timestamp than an
\* earlier one.
C13_RoundTrip == Reparse(mon.file.lines, 1, NoTime) = mon.obs

----------------------------------------------------------------------------
(* SpecLlm: generate_vhdl_code(llm=True), src/demos/rtl/register.py, on any *)
(* sequence of answers of the external service.                             *)
(*   llm.pc      : "idle", or where gemini_client stands: "generate"        *)
(*                 (about to call generate_content), "sleeping" (in         *)
(*                 time.sleep), "listing" (about to call models.list)       *)
(*   llm.retries : the local variable of gemini_client                      *)
(*   llm.calls, llm.lists : calls of generate_content and of models.list    *)
(*                 made for the current prompt                              *)
(*   llm.resp    : the answers to the generate_content calls                *)
(*   llm.slept   : seconds spent in time.sleep for the current prompt       *)
(*   llm.client  : how gemini_client ended ("returned", "raised", "exited") *)
(*   llm.op      : how generate_vhdl_code ended ("written": the file was    *)
(*                 written, "nokey": it returned without generating,        *)
(*                 "raised", "exited")                                      *)
(*   llm.process : "running" or "exited" (sys.exit)                         *)
(*   llm.ops     : calls of generate_vhdl_code so far                       *)
(*   llm.log     : <<op, resp>> of every call of generate_vhdl_code that    *)
(*                 has ended, as its caller saw them                        *)

\* retries = 3
Retries == 3

\* time.sleep(35)
SleepSeconds == 35

\* An answer of the service to generate_content: 200 for a response, the
\* code of a ClientError (400 and 403 stand for the codes other than 429
\* and 404), 500 for an error that is not a ClientError.
Responses == {200, 400, 403, 404, 429, 500}

ClientErrorCodes == {400, 403, 404, 429}

LlmInit ==
    /\ simIdle
    /\ gate = Idle /\ eng = Idle /\ evq = Idle /\ det = Idle
    /\ lg = Idle /\ mon = Idle /\ ser = Idle /\ ck = Idle /\ imp = Idle
    /\ llm = [pc |-> "idle", retries |-> 0, calls |-> 0, lists |-> 0,
              resp |-> <<>>, slept |-> 0, client |-> "none", op |-> "none",
              process |-> "running", ops |-> 0, log |-> <<>>]

LlmFrame == UNCHANGED <<simVars, gate, eng, evq, det, lg, mon, ser,
                 ck, imp>>

\* gemini_client ends by raising: generate_code lets the exception through
\* and generate_vhdl_code raises "VHDL generation failed".
LlmRaise(s) ==
    [s EXCEPT !.pc = "idle", !.client = "raised", !.op = "raised",
              !.log = Append(@, <<"raised", s.resp>>)]

\* generate_vhdl_code(llm=True) is called: without GEMINI_API_KEY it prints
\* an error and returns; with it, generate_code builds the prompt and calls
\* gemini_client(prompt), which sets retries.
generate_vhdl_code ==
    /\ llm.pc = "idle" /\ llm.process = "running"
    /\ llm.ops < MaxOps
    /\ \E api_key \in BOOLEAN :
         llm' = [llm EXCEPT
                   !.ops = @ + 1, !.calls = 0, !.lists = 0, !.resp = <<>>,
                   !.slept = 0, !.client = "none",
                   !.retries = IF api_key THEN Retries ELSE 0,
                   !.pc = IF api_key THEN "generate" ELSE "idle",
                   !.op = IF api_key THEN "none" ELSE "nokey",
                   !.log = IF api_key THEN @ ELSE Append(@, <<"nokey", <<>>>>)]
    /\ LlmFrame

\* client.models.generate_content(...) is called and the service answers.
generate_content ==
    /\ llm.pc = "generate"
    /\ \E r \in Responses :
         LET s == [llm EXCEPT !.calls = @ + 1, !.resp = Append(@, r)]
         IN  llm' =
               IF r = 200
               THEN [s EXCEPT !.pc = "idle", !.client = "returned",
                              !.op = "written",
                              !.log = Append(@, <<"written", s.resp>>)]
               ELSE IF r \notin ClientErrorCodes THEN LlmRaise(s)
               ELSE IF r = 429 THEN [s EXCEPT !.pc = "sleeping"]
               ELSE IF r = 404 THEN [s EXCEPT !.pc = "listing"]
               ELSE LlmRaise(s)
    /\ LlmFrame

\* A gemini_client that sleeps and tries again without counting.
sleep_nocount ==
    /\ llm.pc = "sleeping"
    /\ llm' = [llm EXCEPT !.slept = @ + SleepSeconds, !.pc = "generate"]
    /\ LlmFrame

\* time.sleep(35) is over: retries -= 1, then the loop condition; after
\* the loop, raise Exception("Gemini API quota exceeded after retries.").
sleep ==
    /\ llm.pc = "sleeping"
    /\ LET s == [llm EXCEPT !.slept = @ + SleepSeconds, !.retries = @ - 1]
       IN  llm' = IF s.retries > 0 THEN [s EXCEPT !.pc = "generate"]
                  ELSE LlmRaise(s)
    /\ LlmFrame

\* The 404 branch: client.models.list() answers or fails (the failure is
\* caught and printed), then sys.exit(0). SystemExit is not an Exception:
\* the except clause of generate_vhdl_code does not catch it.
list_models ==
    /\ llm.pc = "listing"
    /\ \E listed \in BOOLEAN :
         llm' = [llm EXCEPT !.lists = @ + 1, !.pc = "idle",
                            !.client = "exited", !.op = "exited",
                            !.process = "exited",
                            !.log = Append(@, <<"exited", llm.resp>>)]
    /\ LlmFrame

LlmStep == generate_content \/ sleep \/ list_models

LlmNext == generate_vhdl_code \/ LlmStep

SpecLlm == LlmInit /\ [][LlmNext]_vars

\* gemini_client is in progress: ENABLED <<LlmStep>>_vars.
LlmBusy == llm.pc \in {"generate", "sleeping", "listing"}

\* The service answers every call and sleep returns: weak fairness of the
\* steps of gemini_client.
FairLlm == SpecLlm /\ ([]<>(~LlmBusy) \/ []<><<LlmStep>>_vars)

LastResp == llm.resp[Len(llm.resp)]

\* C14: a 429 or a 404 from the service is retried a bounded number of
\* times and then ends that call of generate_vhdl_code with an error raised
\* to its caller, the process still running.
C14_ErrorSurfaced ==
    /\ llm.calls <= Retries
    /\ (llm.pc = "idle" /\ llm.resp # <<>> /\ LastResp \in {429, 404}) =>
           /\ llm.op = "raised"
           /\ llm.process = "running"
           /\ Len(llm.resp) > 1

----------------------------------------------------------------------------
(* SpecSer: DiagramSerializer.export_part_to_json, src/serializer.py, on a  *)
(* Part built with the engine's constructors.                               *)
(*   ser.part : the Part: its description, its own ports as <<name,         *)
(*              direction>> in the order they were given, its children (a   *)
(*              record each) and its interfaces as <<<<part, port>>,        *)
(*              <<part, port>>>>, master first                              *)
(*   ser.json : NoJson, or the "part" object of the JSON text returned      *)
(*   ser.err  : "none", or the exception export_part_to_json raised         *)
(*   ser.done : export_part_to_json was called                              *)

STRUCTURAL == "structural"
BEHAVIORAL == "behavioral"

Port_IN == "input"
Port_OUT == "output"

\* Identifier of the Part given to the serializer, and names for its ports
\* and its children.
SerTop == "top"
SerPortNames == {"p", "q"}
SerPartNames == {"a", "b"}

\* The ports of a child: every child is of a class with one input and one
\* output port.
SerChildPorts == << <<"i", Port_IN>>, <<"o", Port_OUT>> >>

\* No JSON text was returned.
NoJson ==
    [identifier |-> None, class |-> None, ports |-> <<>>,
     inner_parts |-> <<>>, connections |-> <<>>]

SerInit ==
    /\ simIdle
    /\ gate = Idle /\ eng = Idle /\ evq = Idle /\ det = Idle
    /\ lg = Idle /\ mon = Idle /\ llm = Idle /\ ck = Idle /\ imp = Idle
    /\ \E d \in {STRUCTURAL, BEHAVIORAL} :
         ser = [part |-> [description |-> d, identifier |-> SerTop,
                          class |-> "Top", ports |-> <<>>, parts |-> <<>>,
                          interfaces |-> <<>>],
                json |-> NoJson, err |-> "none", done |-> FALSE]

SerFrame == UNCHANGED <<simVars, gate, eng, evq, det, lg, mon, llm,
                 ck, imp>>

\* part.get_ports(direction): the ports of that direction, in their order.
get_ports(ports, direction) ==
    SelectSeq(ports, LAMBDA pt : pt[2] = direction)

\* A port entry of the JSON text.
PortEntry(pt) == [name |-> pt[1], direction |-> pt[2]]

PortEntries(ports) ==
    LET all == get_ports(ports, Port_IN) \o get_ports(ports, Port_OUT)
    IN  [i \in 1..Len(all) |-> PortEntry(all[i])]

\* part_data: the "part" object of the JSON text.
part_data(part) ==
    [identifier |-> part.identifier,
     class |-> part.class,
     ports |-> PortEntries(part.ports),
     inner_parts |->
       [i \in 1..Len(part.parts) |->
          [identifier |-> part.parts[i].identifier,
           class |-> part.parts[i].class,
           ports |-> PortEntries(part.parts[i].ports)]],
     connections |->
       [i \in 1..Len(part.interfaces) |->
          [source |-> [part_id |-> part.interfaces[i][1][1],
                       port_id |-> part.interfaces[i][1][2]],
           destination |-> [part_id |-> part.interfaces[i][2][1],
                            port_id |-> part.interfaces[i][2][2]]]]]

\* An export that does not look at the description of the part.
export_part_to_json_unchecked(part) ==
    [err |-> "none", json |-> part_data(part)]

\* DiagramSerializer.export_part_to_json
export_part_to_json(part) ==
    IF part.description # STRUCTURAL
    THEN [err |-> "TypeError", json |-> NoJson]
    ELSE [err |-> "none", json |-> part_data(part)]

\* Part(ports=[...]): one more own port.
SerAddPort ==
    /\ ~ser.done
    /\ Len(ser.part.ports) < MaxSerPorts
    /\ ser.part.parts = <<>>
    /\ \E n \in SerPortNames, d \in {Port_IN, Port_OUT} :
         /\ \A i \in 1..Len(ser.part.ports) : ser.part.ports[i][1] # n
         /\ ser' = [ser EXCEPT !.part.ports = Append(@, <<n, d>>)]
    /\ SerFrame

\* Part(parts={...}): one more child of a structural part.
SerAddPart ==
    /\ ~ser.done
    /\ ser.part.description = STRUCTURAL
    /\ Len(ser.part.parts) < MaxSerParts
    /\ ser.part.interfaces = <<>>
    /\ \E n \in SerPartNames :
         /\ \A i \in 1..Len(ser.part.parts) : ser.part.parts[i].identifier # n
         /\ ser' = [ser EXCEPT !.part.parts =
                       Append(@, [identifier |-> n, class |-> "Leaf",
                                  ports |-> SerChildPorts])]
    /\ SerFrame

\* The ports a wiring of the part can start from and end at: its own inputs
\* and the outputs of its children; its own outputs and their inputs.
SerMasters(part) ==
    {<<part.identifier, part.ports[i][1]>> :
        i \in {j \in 1..Len(part.ports) : part.ports[j][2] = Port_IN}}
    \cup {<<part.parts[i].identifier, "o">> : i \in 1..Len(part.parts)}

SerSlaves(part) ==
    {<<part.identifier, part.ports[i][1]>> :
        i \in {j \in 1..Len(part.ports) : part.ports[j][2] = Port_OUT}}
    \cup {<<part.parts[i].identifier, "i">> : i \in 1..Len(part.parts)}

\* self.wire(master, slave) in the constructor of a structural part: a
\* slave port takes one master.
SerWire ==
    /\ ~ser.done
    /\ ser.part.description = STRUCTURAL
    /\ Len(ser.part.interfaces) < MaxSerWires
    /\ \E m \in SerMasters(ser.part), s \in SerSlaves(ser.part) :
         /\ \A i \in 1..Len(ser.part.interfaces) :
                ser.part.interfaces[i][2] # s
         /\ ser' = [ser EXCEPT !.part.interfaces = Append(@, <<m, s>>)]
    /\ SerFrame

\* serializer.export_part_to_json(part)
SerExport ==
    /\ ~ser.done
    /\ LET res == export_part_to_json(ser.part)
       IN  ser' = [ser EXCEPT !.json = res.json, !.err = res.err,
                              !.done = TRUE]
    /\ SerFrame

SerNext == SerAddPort \/ SerAddPart \/ SerWire \/ SerExport

SpecSer == SerInit /\ [][SerNext]_vars

\* How many entries of a sequence of the JSON text equal e.
SerCount(entries, e) == Cardinality({i \in 1..Len(entries) : entries[i] = e})

\* C15: export_part_to_json on a Part that is not structural fails with
\* TypeError and gives no JSON; on a structural Part it gives exactly one
\* port entry per own port, one inner_parts entry per child and one
\* connections entry per wiring.
C15_ExportStructuralOnly ==
    ser.done =>
        IF ser.part.description # STRUCTURAL
        THEN ser.err = "TypeError" /\ ser.json = NoJson
        ELSE /\ ser.err = "none" /\ ser.json # NoJson
             /\ Len(ser.json.ports) = Len(ser.part.ports)
             /\ \A i \in 1..Len(ser.part.ports) :
                    SerCount(ser.json.ports, PortEntry(ser.part.ports[i])) = 1
             /\ Len(ser.json.inner_parts) = Len(ser.part.parts)
             /\ \A i \in 1..Len(ser.part.parts) :
                    Cardinality({j \in 1..Len(ser.json.inner_parts) :
                        ser.json.inner_parts[j].identifier =
                            ser.part.parts[i].identifier}) = 1
             /\ Len(ser.json.connections) = Len(ser.part.interfaces)
             /\ \A i \in 1..Len(ser.part.interfaces) :
                    LET w == ser.part.interfaces[i]
                    IN  SerCount(ser.json.connections,
                            [source |-> [part_id |-> w[1][1],
                                         port_id |-> w[1][2]],
                             destination |-> [part_id |-> w[2][1],
                                              port_id |-> w[2][2]]]) = 1

\* A structural part with two own ports, two children and two wirings was
\* exported.
C15_Witness ==
    /\ ser.done /\ ser.err = "none"
    /\ ser.part.description = STRUCTURAL
    /\ Len(ser.json.ports) = 2
    /\ Len(ser.json.inner_parts) = 2
    /\ Len(ser.json.connections) = 2

----------------------------------------------------------------------------
(* More properties of the Testbench run (Spec)                              *)

\* C16: in every tick in which dut.clk receives a new value, the Register
\* writes out_0 with the value of in_0.
C16_UpdatesOnEveryClock ==
    (Visited("dut") /\ tb.upd["dut.clk"]) =>
        tb.upd["dut.out_0"] /\ tb.val["dut.out_0"] = tb.val["dut.in_0"]

\* The monitor has written the line of signal number i (counted from 1)
\* with the bit of value v in this tick.
Dumped(i, v) ==
    \E k \in 1..Len(tb.file.lines) : tb.file.lines[k] = <<VcdBit(v), i - 1>>

C18_ClockToggles ==
    /\ [](/\ tb.state \in {U, ZERO, ONE}
          /\ tb.state = U <=> tb.consumed = 0
          /\ tb.consumed > 0 =>
                 tb.state = (IF tb.consumed % 2 = 1 THEN ZERO ELSE ONE)
          /\ tb.val["clock.clk"] = tb.state
          /\ tb.edges = tb.consumed \div 2)
    /\ [][tb'.consumed # tb.consumed =>
             /\ tb'.consumed = tb.consumed + 1
             /\ tb'.state = (IF tb.state = U THEN ZERO ELSE Invert(tb.state))
             /\ tb'.upd["clock.clk"] /\ ~tb.upd["clock.clk"]
             /\ tb'.val["clock.clk"] = tb'.state
             /\ tb'.edges =
                    tb.edges + (IF tb'.consumed % 2 = 0 THEN 1 ELSE 0)]_vars
    /\ [][tb'.consumed = tb.consumed =>
             /\ tb'.state = tb.state
             /\ tb'.val["clock.clk"] = tb.val["clock.clk"]
             /\ tb'.edges = tb.edges]_vars

\* Four events consumed: clk is ONE after its second rising edge.
C18_Witness ==
    /\ tb.consumed = 4
    /\ tb.state = ONE
    /\ tb.val["clock.clk"] = ONE
    /\ tb.edges = 2

\* C20: once the strategy has been to Source and Register in a tick, the
\* body of one was entered if and only if the body of the other was; both
\* were invoked if and only if clk was written in the tick; the values the
\* two gates recorded are equal; and Source.cycle is the number of times
\* the Register has fired, which is the number of rising edges of clk.
\* Between the visit of Source and that of Register, cycle is one ahead if
\* Source has just fired.
C20_GatesAgree ==
    /\ Visited("dut") =>
           /\ tb.ran["source"] <=> tb.ran["dut"]
           /\ tb.upd["clock.clk"] <=>
                  (tb.invoked["source"] = 1 /\ tb.invoked["dut"] = 1)
           /\ ~tb.upd["clock.clk"] =>
                  (tb.invoked["source"] = 0 /\ tb.invoked["dut"] = 0)
           /\ tb.prev["source"] = tb.prev["dut"]
           /\ tb.cycle = tb.fired
           /\ tb.fired = tb.edges
    /\ ~Visited("dut") =>
           tb.cycle = tb.fired +
               (IF Visited("source") /\ tb.ran["source"] THEN 1 ELSE 0)

\* The third rising edge: both bodies were entered, both gates recorded ONE.
C20_Witness ==
    /\ Visited("dut")
    /\ tb.ran["source"] /\ tb.ran["dut"]
    /\ tb.prev["source"] = ONE /\ tb.prev["dut"] = ONE
    /\ tb.cycle = 3 /\ tb.fired = 3

----------------------------------------------------------------------------
(* SpecClock: Clock.behavior statement by statement, interleaved with the   *)
(* pushes of the Timer thread on the queue simulate() gives them (size      *)
(* QueueSize, OnFullBehavior.DROP). The values pushed are 1, 2, ...         *)
(*   ck.pc     : the statement Clock.behavior is at ("idle" between calls)  *)
(*   ck.state0 : self.state when the invocation began                      *)
(*   ck.writes : the ports written by the invocation, in order             *)
(*   ck.last   : how the last finished invocation went                     *)
(*   ck.checks : the times is_empty() returned false; ck.pops : the pops   *)

MaxClockPush == 4

MaxClockCalls == 4

ClockInit ==
    /\ ck = [queue |-> <<>>, n |-> 0, pc |-> "idle", state |-> U,
             state0 |-> U, t |-> NoTime, writes |-> <<>>, err |-> "none",
             calls |-> 0, last |-> "none", checks |-> 0, pops |-> 0]
    /\ simIdle
    /\ gate = Idle /\ eng = Idle /\ evq = Idle /\ det = Idle
    /\ lg = Idle /\ mon = Idle /\ llm = Idle /\ ser = Idle /\ imp = Idle

ClockFrame == UNCHANGED <<simVars, gate, eng, evq, det, lg, mon, llm, ser,
                          imp>>

\* The Timer thread pushes its next value.
ClockPush ==
    /\ ck.n < MaxClockPush
    /\ ck.err = "none"
    /\ ck' = [ck EXCEPT !.queue = push(@, QueueSize, TimerOnFull, ck.n + 1),
                        !.n = @ + 1]
    /\ ClockFrame

\* The engine invokes Clock.behavior.
ClockInvoke ==
    /\ ck.pc = "idle"
    /\ ck.err = "none"
    /\ ck.calls < MaxClockCalls
    /\ ck' = [ck EXCEPT !.pc = "check", !.calls = @ + 1, !.state0 = ck.state,
                        !.writes = <<>>, !.last = "running"]
    /\ ClockFrame

\* Clock.behavior that pops without asking is_empty().
ClockCheck_blind ==
    /\ ck.pc = "check"
    /\ ck' = [ck EXCEPT !.pc = "pop"]
    /\ ClockFrame

\* Clock.behavior: if not event_queue.is_empty()
ClockCheck ==
    /\ ck.pc = "check"
    /\ ck' = IF is_empty(ck.queue)
             THEN [ck EXCEPT !.pc = "idle", !.last = "empty"]
             ELSE [ck EXCEPT !.pc = "pop", !.checks = @ + 1]
    /\ ClockFrame

\* Clock.behavior: t = event_queue.pop()
ClockPop ==
    /\ ck.pc = "pop"
    /\ ck' = IF is_empty(ck.queue)
             THEN [ck EXCEPT !.err = "EmptyQueueError", !.pc = "idle",
                             !.last = "raised"]
             ELSE [ck EXCEPT !.t = pop_value(ck.queue),
                             !.queue = pop_rest(ck.queue),
                             !.pops = @ + 1,
                             !.pc = "drive"]
    /\ ClockFrame

\* Clock.behavior: the writes of time_port and clk, and self.state = state
ClockDrive ==
    /\ ck.pc = "drive"
    /\ LET state == IF ck.state = U THEN ZERO ELSE Invert(ck.state)
       IN  ck' = [ck EXCEPT
               !.writes = @ \o << <<"clock.time_port", ck.t>>,
                                  <<"clock.clk", state>> >>,
               !.state = state,
               !.pc = "idle",
               !.last = "drove"]
    /\ ClockFrame

ClockNext ==
    ClockPush \/ ClockInvoke \/ ClockCheck \/ ClockPop \/ ClockDrive

SpecClock == ClockInit /\ [][ClockNext]_vars

\* C22: under every interleaving of the Timer's pushes with Clock.behavior,
\* no pop meets an empty queue (no EmptyQueueError): every pop follows an
\* is_empty() that returned false, and an invocation that found the queue
\* empty has written no port and left the clock state as it was.
C22_NoEmptyPop ==
    /\ ck.err = "none"
    /\ ck.pc = "pop" => ~is_empty(ck.queue)
    /\ ck.pops <= ck.checks
    /\ ck.pops + (IF ck.pc = "pop" THEN 1 ELSE 0) = ck.checks
    /\ ck.last = "empty" => ck.writes = <<>> /\ ck.state = ck.state0
    /\ ck.last = "drove" => Len(ck.writes) = 2

\* Both cases after pushes that the full queue dropped: an invocation has
\* popped and driven the clock, the next one found the queue empty.
C22_Witness ==
    /\ ck.last = "empty" /\ ck.calls >= 2 /\ ck.pops >= 1
    /\ ck.n >= 3
    /\ ck.state = ZERO /\ ck.writes = <<>>

----------------------------------------------------------------------------
(* SpecVcdLog: the timestamp lines of the log over any sequence of time     *)
(* values, rising, repeated or falling, with or without a change of the     *)
(* first monitored signal. The monitor is the one of SpecVcd.               *)

MaxLogCalls == 3

\* The time values the time port receives: 0 ms to 3.5 ms in any order.
LogTimes == 0..7

\* One invocation of VCDMonitor.behavior after its ports received t and v.
MonLog ==
    /\ mon.calls < MaxLogCalls
    /\ \E t \in LogTimes \cup {NoTime}, v \in {None, ONE} :
         /\ t # NoTime \/ v # None
         /\ LET drive == [i \in MonSignals |-> IF i = 1 THEN v ELSE None]
                s == MonPropagate(mon, t, drive)
            IN  mon' = [VCDMonitor_behavior(s) EXCEPT !.calls = @ + 1]
    /\ UNCHANGED <<simVars, gate, eng, evq, det, lg, llm, ser,
                 ck, imp>>

LogNext == MonLog

SpecVcdLog == MonInit /\ [][LogNext]_vars

\* The timestamps of the "#" lines of a log, in the order written.
RECURSIVE Stamps(_)
Stamps(lines) ==
    IF lines = <<>> THEN <<>>
    ELSE (IF Head(lines)[1] = "#" THEN <<Head(lines)[2]>> ELSE <<>>)
         \o Stamps(Tail(lines))

\* C23: the "#<timestamp>" lines of the log are strictly increasing for any
\* sequence of time values: an invocation writes a timestamp line exactly
\* when its timestamp exceeds last_timestamp, which never decreases and is
\* the last timestamp written, and an invocation whose time value is None
\* writes nothing to the file.
C23_StampsIncrease ==
    /\ [](LET st == Stamps(mon.file.lines)
          IN  /\ \A i \in 1..Len(st) - 1 : st[i] < st[i + 1]
              /\ mon.last_timestamp =
                     IF st = <<>> THEN -1 ELSE st[Len(st)])
    /\ [][/\ mon'.last_timestamp >= mon.last_timestamp
          /\ LET time_val == mon'.tval["vcd.time"]
                 wrote == Len(Stamps(mon'.file.lines))
                              - Len(Stamps(mon.file.lines))
             IN  /\ time_val = NoTime => mon'.file = mon.file
                 /\ wrote = IF /\ time_val # NoTime
                               /\ Timestamp(time_val) > mon.last_timestamp
                            THEN 1 ELSE 0]_vars

\* Signals changed before any time arrived and nothing was written; then
\* 1.5 ms wrote "#1" and the change of the signal, and the earlier time
\* 0.5 ms after it wrote the change without a timestamp line.
C23_Witness ==
    /\ mon.calls = 3
    /\ mon.file.lines = << <<"#", 1>>, <<"1", 0>>, <<"1", 0>> >>
    /\ mon.last_timestamp = 1
    /\ mon.tval["vcd.time"] = 1

----------------------------------------------------------------------------
(* SpecImp: DiagramSerializer.import_part_from_json on a JSON document.     *)
(* The diagram tool (main_window) is not part of the repository: its        *)
(* create_* calls are taken to return the item they are asked for.          *)
(*   imp.doc   : the parsed document; root says whether it has a "part"     *)
(*   imp.pc    : the step of the import the call is at                      *)
(*   imp.k     : the connections gone through so far                        *)
(*   imp.diagram_input_pins, imp.diagram_output_pins, imp.blocks : the      *)
(*               lookup dictionaries of the import, by their keys           *)
(*   imp.wires : the wires created, <<source pin, destination pin>>         *)
(* A pin is <<owner, name>>, the owner being "diagram" or a block.          *)

MaxImpConns == 2

\* The source endpoints <<part_id, port_id>> a connection may name: "c"
\* never names an inner part, "zz" never names a port.
ImpSources ==
    {<<SerTop, "p">>, <<SerTop, "zz">>, <<"a", "o">>, <<"a", "zz">>,
     <<"c", "o">>}

ImpDests ==
    {<<SerTop, "q">>, <<"a", "i">>, <<"b", "i">>, <<"b", "zz">>,
     <<"c", "i">>}

ImpConns ==
    {[source |-> [part_id |-> sc[1], port_id |-> sc[2]],
      destination |-> [part_id |-> d[1], port_id |-> d[2]]] :
         sc \in ImpSources, d \in ImpDests}

\* The connection lists of up to MaxImpConns entries.
ImpConnLists == UNION {[1..n -> ImpConns] : n \in 0..MaxImpConns}

\* The documents: with or without the root "part"; any of the two ports of
\* the top-level part, any of the inner parts a and b, any connection list.
ImpDocs ==
    [root : {"part", "absent"},
     identifier : {SerTop},
     ports : SUBSET {<<"p", Port_IN>>, <<"q", Port_OUT>>},
     inner_parts : SUBSET SerPartNames,
     connections : ImpConnLists]

\* A lookup that found nothing, and one that raised.
NoPin == <<"None", "None">>

Raised == <<"AttributeError", "AttributeError">>

ImpInit ==
    /\ \E doc \in ImpDocs :
         imp = [doc |-> doc, pc |-> "parse", k |-> 0,
                diagram_input_pins |-> {}, diagram_output_pins |-> {},
                blocks |-> {}, wires |-> <<>>, err |-> "none",
                fitted |-> FALSE]
    /\ simIdle
    /\ gate = Idle /\ eng = Idle /\ evq = Idle /\ det = Idle
    /\ lg = Idle /\ mon = Idle /\ llm = Idle /\ ser = Idle /\ ck = Idle

ImpFrame == UNCHANGED <<simVars, gate, eng, evq, det, lg, mon, llm, ser, ck>>

\* The pin names of a port list in one direction.
ImpPinNames(ports, direction) == {pt[1] : pt \in {q \in ports : q[2] = direction}}

\* blocks.get(part_id, {}).<pins>.get(port_id): the default {} of a
\* part_id that is not a key has no attribute input_pins or output_pins.
BlockPin(s, part_id, port_id, direction) ==
    IF part_id \notin s.blocks THEN Raised
    ELSE IF port_id \in ImpPinNames({SerChildPorts[i] : i \in 1..Len(SerChildPorts)},
                                    direction)
         THEN <<part_id, port_id>>
         ELSE NoPin

\* source_pin of a connection
source_pin(s, c) ==
    IF c.source.part_id = s.doc.identifier
    THEN IF c.source.port_id \in s.diagram_input_pins
         THEN <<"diagram", c.source.port_id>> ELSE NoPin
    ELSE BlockPin(s, c.source.part_id, c.source.port_id, Port_OUT)

\* dest_pin of a connection
dest_pin(s, c) ==
    IF c.destination.part_id = s.doc.identifier
    THEN IF c.destination.port_id \in s.diagram_output_pins
         THEN <<"diagram", c.destination.port_id>> ELSE NoPin
    ELSE BlockPin(s, c.destination.part_id, c.destination.port_id, Port_IN)

\* json.loads and the test of the root "part"
ImpParse ==
    /\ imp.pc = "parse"
    /\ imp' = IF imp.doc.root # "part"
              THEN [imp EXCEPT !.err = "ValueError", !.pc = "done"]
              ELSE [imp EXCEPT !.pc = "pins"]
    /\ ImpFrame

\* 1. Create Diagram I/O pins from the top-level part's ports.
ImpPins ==
    /\ imp.pc = "pins"
    /\ imp' = [imp EXCEPT
                 !.diagram_input_pins = ImpPinNames(imp.doc.ports, Port_IN),
                 !.diagram_output_pins = ImpPinNames(imp.doc.ports, Port_OUT),
                 !.pc = "blocks"]
    /\ ImpFrame

\* 2. Create Blocks for each inner part.
ImpBlocks ==
    /\ imp.pc = "blocks"
    /\ imp' = [imp EXCEPT !.blocks = imp.doc.inner_parts, !.pc = "wires"]
    /\ ImpFrame

\* 3. Create Wires from the connections list: the next connection.
ImpWire ==
    /\ imp.pc = "wires"
    /\ imp.k < Len(imp.doc.connections)
    /\ LET c == imp.doc.connections[imp.k + 1]
           sp == source_pin(imp, c)
           dp == dest_pin(imp, c)
       IN  imp' = IF sp = Raised \/ dp = Raised
                  THEN [imp EXCEPT !.err = "AttributeError", !.pc = "done"]
                  ELSE IF sp # NoPin /\ dp # NoPin
                  THEN [imp EXCEPT !.wires = Append(@, <<sp, dp>>),
                                   !.k = @ + 1]
                  ELSE [imp EXCEPT !.k = @ + 1]
    /\ ImpFrame

\* 4. Fit the view to the newly created diagram.
ImpFit ==
    /\ imp.pc = "wires"
    /\ imp.k = Len(imp.doc.connections)
    /\ imp' = [imp EXCEPT !.fitted = TRUE, !.pc = "done"]
    /\ ImpFrame

ImpNext == ImpParse \/ ImpPins \/ ImpBlocks \/ ImpWire \/ ImpFit

SpecImp == ImpInit /\ [][ImpNext]_vars

\* The pins of the diagram items created so far.
ImpCreatedPins ==
    {<<"diagram", n>> : n \in imp.diagram_input_pins \cup imp.diagram_output_pins}
    \cup {<<b, SerChildPorts[i][1]>> : b \in imp.blocks, i \in 1..Len(SerChildPorts)}

\* The endpoints of a connection that name a pin of a created item: a
\* diagram pin of the right direction or a pin of a created block.
ImpResolves(c) ==
    /\ \/ c.source.part_id = imp.doc.identifier
          /\ c.source.port_id \in imp.diagram_input_pins
       \/ c.source.part_id \in imp.blocks /\ c.source.port_id = "o"
    /\ \/ c.destination.part_id = imp.doc.identifier
          /\ c.destination.port_id \in imp.diagram_output_pins
       \/ c.destination.part_id \in imp.blocks /\ c.destination.port_id = "i"

\* The connections gone through that resolve, as wires.
RECURSIVE ImpExpected(_)
ImpExpected(k) ==
    IF k = 0 THEN <<>>
    ELSE LET c == imp.doc.connections[k]
         IN  ImpExpected(k - 1) \o
             (IF ImpResolves(c)
              THEN << << IF c.source.part_id = imp.doc.identifier
                         THEN <<"diagram", c.source.port_id>>
                         ELSE <<c.source.part_id, c.source.port_id>>,
                         IF c.destination.part_id = imp.doc.identifier
                         THEN <<"diagram", c.destination.port_id>>
                         ELSE <<c.destination.part_id, c.destination.port_id>> >> >>
              ELSE <<>>)

\* C24: the import creates a wire for a connection only when both of its
\* pins resolve to created diagram items and skips a connection with an
\* unresolvable endpoint without raising an error, so that the import of a
\* document with a root "part" goes through all its connections; a document
\* without the root "part" is rejected with ValueError before any diagram
\* item is created.
C24_SkipsUnresolved ==
    /\ imp.err \in {"none", "ValueError"}
    /\ imp.err = "ValueError" <=> (imp.doc.root # "part" /\ imp.pc = "done")
    /\ imp.doc.root # "part" =>
           /\ imp.diagram_input_pins = {} /\ imp.diagram_output_pins = {}
           /\ imp.blocks = {} /\ imp.wires = <<>>
    /\ \A i \in 1..Len(imp.wires) :
           imp.wires[i][1] \in ImpCreatedPins /\ imp.wires[i][2] \in ImpCreatedPins
    /\ imp.pc = "wires" => imp.wires = ImpExpected(imp.k)
    /\ imp.pc = "done" /\ imp.doc.root = "part" =>
           /\ imp.fitted /\ imp.k = Len(imp.doc.connections)
           /\ imp.wires = ImpExpected(imp.k)

============================================================================
